---- MODULE Spec2Model ----
(***************************************************************************)
(* Model of the Crispy font-engineering scripts.                           *)
(*                                                                         *)
(*   generate_new_designspace.py   the designspace axis merger (main and   *)
(*                                 the five functions it calls)            *)
(*   sources/widths-inspector.py   the width inspector, first variant      *)
(*   sources/widths-inspector-2.py the width inspector, axis-aware variant *)
(*                                                                         *)
(* Representation.                                                         *)
(*   - A text (column name, style name, file name) is a sequence of        *)
(*     one-character strings, so that substring tests, slices, strip,      *)
(*     basename and splitext are computed character by character.          *)
(*   - A float is a fixed-point integer counting halves: Float(n) = n + n. *)
(*     Every CSV value is a whole number, so (min + max) / 2 is exact.     *)
(*   - A CSV data cell is << >> (empty text) or <<n>> (the text of n).     *)
(*   - A Python dict is a function whose DOMAIN is the set of its keys.    *)
(***************************************************************************)
EXTENDS Integers, Sequences, FiniteSets, TLC

VARIABLES
    pc,            \* position of main() in generate_new_designspace.py
    csv,           \* the CSV mapping file: [header, rows]
    dsFile,        \* the designspace file that is read (never modified)
    disk,          \* the master directories on disk: path -> content
    disk0,         \* the master directories when main started
    e_axes,        \* main's e_axes
    axis_minmax,   \* main's axis_minmax
    style_lookup,  \* main's style_lookup
    doc,           \* main's in-memory DesignSpaceDocument
    warned,        \* sources for which "WARNING: Source UFO not found" printed
    outFile,       \* the axis elements of the designspace file that is written
    variant,       \* which inspector script runs (1 or 2)
    text,          \* the inspector's text field
    status,        \* the inspector's status line
    columns,       \* the inspector's list column titles
    listRows,      \* the inspector's list rows
    call,          \* the inputs of the last process_instances_with_harfbuzz call
    ret,           \* what that call returned
    log            \* what that run of run_check logged

mergerVars == <<pc, csv, dsFile, disk, disk0, e_axes, axis_minmax, style_lookup,
                doc, warned, outFile>>
uiVars == <<variant, text, status, columns, listRows, call, ret, log>>
vars == <<pc, csv, dsFile, disk, disk0, e_axes, axis_minmax, style_lookup,
          doc, warned, outFile, variant, text, status, columns, listRows,
          call, ret, log>>

(***************************************************************************)
(* Bounds of the model.                                                    *)
(***************************************************************************)
MaxRows == 2
MaxSources == 2
MaxFiles == 2

(***************************************************************************)
(* Texts and dicts.                                                        *)
(***************************************************************************)
EmptyDict == [k \in {} |-> 0]

Put(d, k, v) == [x \in DOMAIN d \cup {k} |-> IF x = k THEN v ELSE d[x]]

Get(d, k, default) == IF k \in DOMAIN d THEN d[k] ELSE default

Float(n) == n + n

IsSpace(c) == c = " "

RECURSIVE LStrip(_)
LStrip(s) == IF s # << >> /\ IsSpace(Head(s)) THEN LStrip(Tail(s)) ELSE s

RECURSIVE RStrip(_)
RStrip(s) ==
    IF s # << >> /\ IsSpace(s[Len(s)]) THEN RStrip(SubSeq(s, 1, Len(s) - 1)) ELSE s

Strip(s) == RStrip(LStrip(s))

Prefix(s, n) == SubSeq(s, 1, IF Len(s) < n THEN Len(s) ELSE n)

(***************************************************************************)
(* Program constants of generate_new_designspace.py.                       *)
(***************************************************************************)
Instance == <<"I", "n", "s", "t", "a", "n", "c", "e">>
Marker == <<"-", "e">>
MaxSuffix == <<"M", "a", "x">>
TagLen == 4
UFO_SOURCE_DIR == "master_ufo"
UFO_OUTPUT_DIR == "master_ufo"
OutputDesignspaceDir == "master_ufo"

\* '-e' in h
HasMarker(h) ==
    \E i \in 1..(Len(h) - Len(Marker) + 1) : SubSeq(h, i, i + Len(Marker) - 1) = Marker

(***************************************************************************)
(* 1. get_e_axes_and_lookup                                                *)
(***************************************************************************)
\* csv.DictReader row: dict(zip(fieldnames, row)); a repeated field name keeps
\* the cell of its last column.
RowDict(header, row) ==
    [k \in {header[i] : i \in 1..Len(header)} |->
        row[CHOOSE i \in 1..Len(header) :
                /\ header[i] = k
                /\ \A j \in 1..Len(header) : header[j] = k => j <= i]]

\* e_axes = [h for h in reader.fieldnames if '-e' in h]
EAxes(header) == SelectSeq(header, HasMarker)

\* {k: float(v) for k, v in row.items() if k != 'Instance' and v}
RowLookup(d) ==
    [k \in {k \in DOMAIN d : k # Instance /\ d[k] # << >>} |-> Float(d[k][1])]

\* for row in rows: style_lookup[row['Instance'].strip()] = {...}
RECURSIVE BuildStyleLookup(_, _, _)
BuildStyleLookup(header, rows, acc) ==
    IF rows = << >> THEN acc
    ELSE LET d == RowDict(header, Head(rows))
         IN BuildStyleLookup(header, Tail(rows),
                             Put(acc, Strip(d[Instance]), RowLookup(d)))

\* values = [float(row[axis]) for row in rows if axis in row and row[axis]]
RECURSIVE ColumnValues(_, _, _)
ColumnValues(header, rows, axis) ==
    IF rows = << >> THEN << >>
    ELSE LET d == RowDict(header, Head(rows))
             rest == ColumnValues(header, Tail(rows), axis)
         IN IF axis \in DOMAIN d /\ d[axis] # << >>
            THEN <<Float(d[axis][1])>> \o rest
            ELSE rest

\* PyMinList with the comparison turned round
RECURSIVE PyMinListFlipped(_)
PyMinListFlipped(vs) ==
    IF Len(vs) = 1 THEN vs[1]
    ELSE LET m == PyMinListFlipped(Tail(vs)) IN IF m > Head(vs) THEN m ELSE Head(vs)

\* Python's min() and max() of a non-empty list
RECURSIVE PyMinList(_)
PyMinList(vs) ==
    IF Len(vs) = 1 THEN vs[1]
    ELSE LET m == PyMinList(Tail(vs)) IN IF m < Head(vs) THEN m ELSE Head(vs)

RECURSIVE PyMaxList(_)
PyMaxList(vs) ==
    IF Len(vs) = 1 THEN vs[1]
    ELSE LET m == PyMaxList(Tail(vs)) IN IF m > Head(vs) THEN m ELSE Head(vs)

\* axis_minmax[axis] = {'min': min(values), 'max': max(values)}
AxisMinMax(header, rows) ==
    [axis \in {EAxes(header)[i] : i \in 1..Len(EAxes(header))} |->
        LET values == ColumnValues(header, rows, axis)
        IN [min |-> PyMinList(values), max |-> PyMaxList(values)]]

\* min(values) raises ValueError when a '-e' column has no value in any row
MinMaxRaises(header, rows) ==
    \E i \in 1..Len(EAxes(header)) :
        ColumnValues(header, rows, EAxes(header)[i]) = << >>

\* main: line 141. A file without a header line ends the process (exit(1));
\* an uncaught ValueError ends it with a traceback.
GetEAxesAndLookup ==
    /\ pc = "start"
    /\ IF csv.header = << >>
       THEN /\ pc' = "exit"
            /\ UNCHANGED <<e_axes, axis_minmax, style_lookup>>
       ELSE IF MinMaxRaises(csv.header, csv.rows)
       THEN /\ pc' = "ValueError"
            /\ UNCHANGED <<e_axes, axis_minmax, style_lookup>>
       ELSE /\ pc' = "parsed"
            /\ e_axes' = EAxes(csv.header)
            /\ axis_minmax' = AxisMinMax(csv.header, csv.rows)
            /\ style_lookup' = BuildStyleLookup(csv.header, csv.rows, EmptyDict)
    /\ UNCHANGED <<csv, dsFile, disk, disk0, doc, warned, outFile>>
    /\ UNCHANGED uiVars

\* main: line 142, doc = DesignSpaceDocument.fromfile(DESIGNSPACE_PATH)
FromFile ==
    /\ pc = "parsed"
    /\ pc' = "loaded"
    /\ doc' = dsFile
    /\ UNCHANGED <<csv, dsFile, disk, disk0, e_axes, axis_minmax, style_lookup,
                   warned, outFile>>
    /\ UNCHANGED uiVars

(***************************************************************************)
(* 2. ensure_e_axes                                                        *)
(***************************************************************************)
NewAxis(axis, minmax) ==
    [name |-> axis, tag |-> Prefix(axis, TagLen),
     minimum |-> minmax[axis].min, maximum |-> minmax[axis].max,
     default |-> minmax[axis].min]

\* existing_axis_names is computed once, before the loop
RECURSIVE EnsureLoop(_, _, _, _)
EnsureLoop(axes, existing, todo, minmax) ==
    IF todo = << >> THEN axes
    ELSE IF Head(todo) \notin existing
         THEN EnsureLoop(Append(axes, NewAxis(Head(todo), minmax)), existing,
                         Tail(todo), minmax)
         ELSE EnsureLoop(axes, existing, Tail(todo), minmax)

EnsureEAxes(axes, eaxes, minmax) ==
    EnsureLoop(axes, {axes[i].name : i \in 1..Len(axes)}, eaxes, minmax)

EnsureEAxesStep ==
    /\ pc = "loaded"
    /\ pc' = "ensured"
    /\ doc' = [doc EXCEPT !.axes = EnsureEAxes(doc.axes, e_axes, axis_minmax)]
    /\ UNCHANGED <<csv, dsFile, disk, disk0, e_axes, axis_minmax, style_lookup,
                   warned, outFile>>
    /\ UNCHANGED uiVars

(***************************************************************************)
(* 3. duplicate_sources_and_update_designspace                             *)
(***************************************************************************)
SeqSet(s) == {s[i] : i \in 1..Len(s)}

\* index of the last occurrence of character c in s, 0 when there is none
LastIndex(s, c) ==
    IF \E i \in 1..Len(s) : s[i] = c
    THEN CHOOSE i \in 1..Len(s) : s[i] = c /\ \A j \in (i + 1)..Len(s) : s[j] # c
    ELSE 0

\* os.path.basename
Basename(p) == SubSeq(p, LastIndex(p, "/") + 1, Len(p))

\* os.path.splitext of a name without separators: the extension starts at the
\* last dot, unless only dots precede it
SplitExt(name) ==
    LET dot == LastIndex(name, ".")
    IN IF dot > 0 /\ \E j \in 1..(dot - 1) : name[j] # "."
       THEN [base |-> SubSeq(name, 1, dot - 1), ext |-> SubSeq(name, dot, Len(name))]
       ELSE [base |-> name, ext |-> << >>]

\* os.path.join(directory, name)
Join(dir, name) == [dir |-> dir, name |-> name]

\* os.path.relpath(path, start) for a path directly inside start
RelPath(path, start) == IF path.dir = start THEN path.name ELSE <<".", ".", "/">> \o path.name

\* '-'.join([a+'Max' for a in e_axes])
RECURSIVE JoinMax(_)
JoinMax(eaxes) ==
    IF eaxes = << >> THEN << >>
    ELSE IF Len(eaxes) = 1 THEN Head(eaxes) \o MaxSuffix
    ELSE Head(eaxes) \o MaxSuffix \o <<"-">> \o JoinMax(Tail(eaxes))

\* f"{ufo_base}-{'-'.join([a+'Max' for a in e_axes])}{ufo_ext}"
NewUfoName(filename, eaxes) ==
    LET parts == SplitExt(Basename(filename))
    IN parts.base \o <<"-">> \o JoinMax(eaxes) \o parts.ext

OrigUfoPath(filename) == Join(UFO_SOURCE_DIR, Basename(filename))

NewUfoPath(filename, eaxes) == Join(UFO_OUTPUT_DIR, NewUfoName(filename, eaxes))

\* SetToMin as it would be with setdefault: a coordinate already there is kept
RECURSIVE SetToMinKeepingOld(_, _, _)
SetToMinKeepingOld(loc, eaxes, minmax) ==
    IF eaxes = << >> THEN loc
    ELSE SetToMinKeepingOld(
            IF Head(eaxes) \in DOMAIN loc THEN loc
            ELSE Put(loc, Head(eaxes), minmax[Head(eaxes)].min),
            Tail(eaxes), minmax)

\* for axis in e_axes: source.location[axis] = axis_minmax[axis]['min']
RECURSIVE SetToMin(_, _, _)
SetToMin(loc, eaxes, minmax) ==
    IF eaxes = << >> THEN loc
    ELSE SetToMin(Put(loc, Head(eaxes), minmax[Head(eaxes)].min), Tail(eaxes), minmax)

\* for axis in e_axes: new_source.location[axis] = axis_minmax[axis]['max']
RECURSIVE SetToMax(_, _, _)
SetToMax(loc, eaxes, minmax) ==
    IF eaxes = << >> THEN loc
    ELSE SetToMax(Put(loc, Head(eaxes), minmax[Head(eaxes)].max), Tail(eaxes), minmax)

\* lines 81-88: the SourceDescriptor of the duplicate
NewSource(source, eaxes, minmax) ==
    LET ufo_base == SplitExt(Basename(source.filename)).base
    IN [filename |-> RelPath(NewUfoPath(source.filename, eaxes), OutputDesignspaceDir),
        name |-> ufo_base \o <<"-">> \o JoinMax(eaxes),
        familyName |-> source.familyName,
        styleName |-> source.styleName \o <<"-">> \o JoinMax(eaxes),
        location |-> SetToMax(source.location, eaxes, minmax)]

\* shutil.rmtree(path) when os.path.exists(path)
RmTreeIfExists(d, path) == [p \in DOMAIN d \ {path} |-> d[p]]

\* shutil.copytree(src, dst)
CopyTree(d, src, dst) == Put(d, dst, d[src])

\* One iteration of the loop over doc.sources (lines 64-90). st holds the
\* sources (updated in place), new_sources, the disk and the warnings printed.
DuplicateOne(st, i, eaxes, minmax) ==
    LET source == [st.sources[i] EXCEPT
                      !.location = SetToMin(st.sources[i].location, eaxes, minmax)]
        orig_ufo_path == OrigUfoPath(source.filename)
        new_ufo_path == NewUfoPath(source.filename, eaxes)
        cleared == RmTreeIfExists(st.disk, new_ufo_path)
        st1 == [st EXCEPT !.sources[i] = source, !.disk = cleared]
    IN IF orig_ufo_path \notin DOMAIN cleared
       THEN [st1 EXCEPT !.warned = st.warned \cup {i}]
       ELSE [st1 EXCEPT !.disk = CopyTree(cleared, orig_ufo_path, new_ufo_path),
                        !.new_sources = Append(st.new_sources,
                                               NewSource(source, eaxes, minmax))]

RECURSIVE DuplicateLoop(_, _, _, _)
DuplicateLoop(st, i, eaxes, minmax) ==
    IF i > Len(st.sources) THEN st
    ELSE DuplicateLoop(DuplicateOne(st, i, eaxes, minmax), i + 1, eaxes, minmax)

DuplicateSourcesAndUpdateDesignspace ==
    /\ pc = "ensured"
    /\ pc' = "duplicated"
    /\ LET st == DuplicateLoop([sources |-> doc.sources, new_sources |-> << >>,
                                disk |-> disk, warned |-> {}],
                               1, e_axes, axis_minmax)
       IN /\ doc' = [doc EXCEPT !.sources = st.sources \o st.new_sources]
          /\ disk' = st.disk
          /\ warned' = st.warned
    /\ UNCHANGED <<csv, dsFile, disk0, e_axes, axis_minmax, style_lookup, outFile>>
    /\ UNCHANGED uiVars

(***************************************************************************)
(* 4. update_instances_with_e_axes                                         *)
(***************************************************************************)
\* getattr(instance, 'styleName', None) of an instance without a style name
None == <<"None">>

\* Python truth of a style name: None and '' are false
Truthy(style_name) == style_name # None /\ style_name # << >>

\* (axis_minmax[axis]['min'] + axis_minmax[axis]['max']) / 2
DefaultValue(axis, minmax) == (minmax[axis].min + minmax[axis].max) \div 2

\* AxisValue without the test that the style name is true
AxisValueAnyName(style_name, axis, minmax, lookup) ==
    IF style_name \in DOMAIN lookup
    THEN Get(lookup[style_name], axis, DefaultValue(axis, minmax))
    ELSE DefaultValue(axis, minmax)

\* lines 99-104
AxisValue(style_name, axis, minmax, lookup) ==
    IF Truthy(style_name) /\ style_name \in DOMAIN lookup
    THEN Get(lookup[style_name], axis, DefaultValue(axis, minmax))
    ELSE DefaultValue(axis, minmax)

RECURSIVE UpdateInstance(_, _, _, _)
UpdateInstance(instance, eaxes, minmax, lookup) ==
    IF eaxes = << >> THEN instance
    ELSE UpdateInstance(
            [instance EXCEPT !.location =
                Put(instance.location, Head(eaxes),
                    AxisValue(instance.styleName, Head(eaxes), minmax, lookup))],
            Tail(eaxes), minmax, lookup)

UpdateInstancesWithEAxes ==
    /\ pc = "duplicated"
    /\ pc' = "updated"
    /\ doc' = [doc EXCEPT !.instances =
                  [i \in 1..Len(doc.instances) |->
                      UpdateInstance(doc.instances[i], e_axes, axis_minmax,
                                     style_lookup)]]
    /\ UNCHANGED <<csv, dsFile, disk, disk0, e_axes, axis_minmax, style_lookup,
                   warned, outFile>>
    /\ UNCHANGED uiVars

(***************************************************************************)
(* 6. save_designspace and 5. set_axis_defaults_to_minimums                *)
(***************************************************************************)
\* A number as written in the file, and float('inf') as written in the file
NumText(v) == <<v>>
InfText == << >>

\* doc.write(output_path): one axis element per axis of the document
AxisElem(a) ==
    [name |-> a.name, tag |-> a.tag, minimum |-> NumText(a.minimum),
     maximum |-> NumText(a.maximum), default |-> NumText(a.default)]

SaveDesignspace ==
    /\ pc = "updated"
    /\ pc' = "saved"
    /\ outFile' = [i \in 1..Len(doc.axes) |-> AxisElem(doc.axes[i])]
    /\ UNCHANGED <<csv, dsFile, disk, disk0, e_axes, axis_minmax, style_lookup,
                   doc, warned>>
    /\ UNCHANGED uiVars

\* PyMin with the comparison turned round
PyMinFlipped(m, x) ==
    IF m = InfText THEN NumText(x) ELSE IF m[1] > x THEN m ELSE NumText(x)

\* min(min_values[axis], source.location[axis]); m is InfText or NumText(v)
PyMin(m, x) == IF m = InfText THEN NumText(x) ELSE IF m[1] < x THEN m ELSE NumText(x)

\* lines 116-120: min_values[axis] over the sources that have the axis
RECURSIVE MinValue(_, _, _)
MinValue(axis, sources, m) ==
    IF sources = << >> THEN m
    ELSE MinValue(axis, Tail(sources),
                  IF axis \in DOMAIN Head(sources).location
                  THEN PyMin(m, Head(sources).location[axis])
                  ELSE m)

MinValues(axes, sources) ==
    [axis \in {axes[i].name : i \in 1..Len(axes)} |-> MinValue(axis, sources, InfText)]

\* lines 126-130: axis_elem.set('default', str(min_values[axis_name]))
SetDefault(elem, min_values) ==
    IF elem.name \in DOMAIN min_values
    THEN [elem EXCEPT !.default = min_values[elem.name]]
    ELSE elem

SetAxisDefaultsToMinimums ==
    /\ pc = "saved"
    /\ pc' = "done"
    /\ outFile' = [i \in 1..Len(outFile) |->
                      SetDefault(outFile[i], MinValues(doc.axes, doc.sources))]
    /\ UNCHANGED <<csv, dsFile, disk, disk0, e_axes, axis_minmax, style_lookup,
                   doc, warned>>
    /\ UNCHANGED uiVars

NextMerger ==
    \/ GetEAxesAndLookup
    \/ FromFile
    \/ EnsureEAxesStep
    \/ DuplicateSourcesAndUpdateDesignspace
    \/ UpdateInstancesWithEAxes
    \/ SaveDesignspace
    \/ SetAxisDefaultsToMinimums

(***************************************************************************)
(* The width inspector (sources/widths-inspector.py and -2.py).            *)
(*                                                                         *)
(* An instance file of the export directory is a record                    *)
(*   [stem, loads, fvar, named, adv]:                                      *)
(*   loads  whether HarfBuzz can open the file,                            *)
(*   fvar   the axis tags of its fvar table (<< >> when it has none),      *)
(*   named  its named instances: name -> (tag -> coordinate),              *)
(*   adv    the advance of each character's glyph.                         *)
(* The input of one call is [mkdirOk, compiler, files]: whether the export *)
(* directory can be made, how the compiler run ended ("ok", "nonzero" for  *)
(* CalledProcessError, "notfound" for a missing executable) and what       *)
(* export_dir.glob("*.otf") lists afterwards, in the order it lists it.    *)
(***************************************************************************)
Dash == << >>

WidthWord == <<"W", "i", "d", "t", "h">>

\* sum(pos.x_advance for pos in positions)
RECURSIVE MeasureTextWidth(_, _)
MeasureTextWidth(font, txt) ==
    IF txt = << >> THEN 0
    ELSE font.adv[Head(txt)] + MeasureTextWidth(font, Tail(txt))

\* extract_axes_from_otf: every axis tag maps to None, every named instance
\* to its coordinates (a named instance called like a tag replaces the None)
ExtractAxesFromOtf(font) ==
    [k \in SeqSet(font.fvar) \cup DOMAIN font.named |->
        IF k \in DOMAIN font.named
        THEN [none |-> FALSE, axes |-> font.named[k]]
        ELSE [none |-> TRUE, axes |-> EmptyDict]]

\* sorted(all_axes), the tags of the model in alphabetical order
TagOrder == <<"opsz", "wdth", "wght">>

Sorted(tags) == SelectSeq(TagOrder, LAMBDA t : t \in tags)

\* lines 94-97 of widths-inspector-2.py: the row of one instance
ResultRow(instance_name, instance_axes, all_axes, txt, width) ==
    [Instance |-> instance_name,
     axes |-> [axis \in all_axes |->
                  IF axis \in DOMAIN instance_axes
                  THEN <<instance_axes[axis]>> ELSE Dash],
     widthKey |-> txt \o <<" ">> \o WidthWord,
     width |-> width]

\* The loop over otf_files of widths-inspector-2.py (lines 75-99). An exception
\* (the file does not load, or axes_data.get() gave None) ends the loop and is
\* caught by "except Exception" (lines 103-104).
RECURSIVE ProcessLoop2(_, _, _, _)
ProcessLoop2(files, txt, results, all_axes) ==
    IF files = << >>
    THEN [results |-> results, all_axes |-> all_axes, log |-> << >>]
    ELSE LET font == Head(files)
             axes_data == ExtractAxesFromOtf(font)
             entry == Get(axes_data, font.stem, [none |-> FALSE, axes |-> EmptyDict])
             grown == all_axes \cup DOMAIN entry.axes
         IN IF ~font.loads \/ entry.none
            THEN [results |-> results, all_axes |-> all_axes,
                  log |-> <<"Error during processing">>]
            ELSE ProcessLoop2(Tail(files), txt,
                              Append(results,
                                     ResultRow(font.stem, entry.axes, grown, txt,
                                               MeasureTextWidth(font, txt))),
                              grown)

\* ProcessInstances2 without "except subprocess.CalledProcessError"
ProcessInstances2Uncaught(in, txt) ==
    IF ~in.mkdirOk \/ in.compiler = "nonzero"
    THEN [results |-> << >>, axis_names |-> << >>, raised |-> TRUE, log |-> << >>]
    ELSE IF in.compiler = "notfound"
    THEN [results |-> << >>, axis_names |-> << >>, raised |-> FALSE,
          log |-> <<"Error during processing">>]
    ELSE IF in.files = << >>
    THEN [results |-> << >>, axis_names |-> << >>, raised |-> FALSE,
          log |-> <<"No OTF files generated.">>]
    ELSE LET r == ProcessLoop2(in.files, txt, << >>, {})
         IN [results |-> r.results, axis_names |-> Sorted(r.all_axes),
             raised |-> FALSE, log |-> r.log]

\* process_instances_with_harfbuzz of widths-inspector-2.py
ProcessInstances2(in, txt) ==
    IF ~in.mkdirOk
    THEN [results |-> << >>, axis_names |-> << >>, raised |-> TRUE, log |-> << >>]
    ELSE IF in.compiler = "nonzero"
    THEN [results |-> << >>, axis_names |-> << >>, raised |-> FALSE,
          log |-> <<"fontmake failed">>]
    ELSE IF in.compiler = "notfound"
    THEN [results |-> << >>, axis_names |-> << >>, raised |-> FALSE,
          log |-> <<"Error during processing">>]
    ELSE IF in.files = << >>
    THEN [results |-> << >>, axis_names |-> << >>, raised |-> FALSE,
          log |-> <<"No OTF files generated.">>]
    ELSE LET r == ProcessLoop2(in.files, txt, << >>, {})
         IN [results |-> r.results, axis_names |-> Sorted(r.all_axes),
             raised |-> FALSE, log |-> r.log]

\* The loop over otf_files of widths-inspector.py (lines 55-66)
RECURSIVE ProcessLoop1(_, _, _)
ProcessLoop1(files, txt, results) ==
    IF files = << >> THEN [results |-> results, log |-> << >>]
    ELSE IF ~Head(files).loads
         THEN [results |-> results, log |-> <<"Error during processing">>]
         ELSE ProcessLoop1(Tail(files), txt,
                           Append(results,
                                  [Instance |-> Head(files).stem, axes |-> EmptyDict,
                                   widthKey |-> WidthWord,
                                   width |-> MeasureTextWidth(Head(files), txt)]))

\* process_instances_with_harfbuzz of widths-inspector.py
ProcessInstances1(in, txt) ==
    IF ~in.mkdirOk
    THEN [results |-> << >>, axis_names |-> << >>, raised |-> TRUE, log |-> << >>]
    ELSE IF in.compiler = "nonzero"
    THEN [results |-> << >>, axis_names |-> << >>, raised |-> FALSE,
          log |-> <<"fontmake failed">>]
    ELSE IF in.compiler = "notfound"
    THEN [results |-> << >>, axis_names |-> << >>, raised |-> FALSE,
          log |-> <<"Error during processing">>]
    ELSE IF in.files = << >>
    THEN [results |-> << >>, axis_names |-> << >>, raised |-> FALSE,
          log |-> <<"No OTF files generated.">>]
    ELSE LET r == ProcessLoop1(in.files, txt, << >>)
         IN [results |-> r.results, axis_names |-> << >>, raised |-> FALSE,
             log |-> r.log]

\* The status line: "Ready", "Running...", "No data found.",
\* "Completed: {count} instances measured", "Error: ..."
Status(kind, count) == [kind |-> kind, count |-> count]

\* The user types into the text field.
EditText(t) ==
    /\ text' = t
    /\ text # t
    /\ UNCHANGED <<variant, status, columns, listRows, call, ret, log>>
    /\ UNCHANGED mergerVars

\* InspectorUI.run_check of widths-inspector-2.py
RunCheck2(in) ==
    /\ variant = 2
    /\ LET txt == IF Strip(text) = << >> THEN <<"H">> ELSE Strip(text)
           r == ProcessInstances2(in, txt)
       IN /\ call' = in
          /\ ret' = [results |-> r.results, axis_names |-> r.axis_names,
                     raised |-> r.raised]
          /\ IF r.raised
             THEN /\ status' = Status("Error", 0)
                  /\ log' = r.log \o <<"Error during checking">>
                  /\ UNCHANGED <<columns, listRows>>
             ELSE IF r.results = << >>
             THEN /\ status' = Status("No data found.", 0)
                  /\ log' = r.log
                  /\ UNCHANGED <<columns, listRows>>
             ELSE /\ columns' = [axes |-> r.axis_names,
                                 width |-> txt \o <<" ">> \o WidthWord]
                  /\ listRows' = r.results
                  /\ status' = Status("Completed", Len(r.results))
                  /\ log' = r.log
    /\ UNCHANGED <<variant, text>>
    /\ UNCHANGED mergerVars

\* InspectorUI.run_check of widths-inspector.py
RunCheck1(in) ==
    /\ variant = 1
    /\ LET txt == IF text = << >> THEN <<"H">> ELSE text
           r == ProcessInstances1(in, txt)
       IN /\ text' = txt
          /\ call' = in
          /\ ret' = [results |-> r.results, axis_names |-> r.axis_names,
                     raised |-> r.raised]
          /\ IF r.raised
             THEN /\ status' = Status("Error", 0)
                  /\ log' = r.log \o <<"Error during checking">>
                  /\ UNCHANGED listRows
             ELSE /\ listRows' = r.results
                  /\ status' = Status("Completed", Len(r.results))
                  /\ log' = r.log
    /\ UNCHANGED <<variant, columns>>
    /\ UNCHANGED mergerVars

(***************************************************************************)
(* The bounded families of inputs.                                         *)
(***************************************************************************)
WghtE == <<"W", "g", "h", "t", "-", "e">>
XExt == <<"X", "-", "e", "x", "t">>
Wdth == <<"w", "d", "t", "h">>
Wght == <<"w", "g", "h", "t">>

\* Header lines: none (an empty file), no axis column, one extension column,
\* an extension and a plain column, two extension columns, one column twice.
Headers ==
    {<< >>, <<Instance>>, <<Instance, WghtE>>, <<Instance, WghtE, Wdth>>,
     <<Instance, WghtE, XExt>>, <<Instance, WghtE, WghtE>>}

InstanceCells == {<<"B">>, <<" ">>}
DataCells == {<< >>, <<1>>, <<2>>}

RowsOf(header) ==
    {<<k>> \o c : k \in InstanceCells, c \in [1..(Len(header) - 1) -> DataCells]}

CsvFiles ==
    {[header |-> << >>, rows |-> << >>]} \cup
    UNION {UNION {{[header |-> h, rows |-> r] : r \in [1..n -> RowsOf(h)]} :
                  n \in 0..MaxRows} : h \in Headers \ {<< >>}}

WghtAxis ==
    [name |-> Wght, tag |-> Wght, minimum |-> Float(1), maximum |-> Float(9),
     default |-> Float(4)]

\* an axis of the document that carries the name of a CSV extension column
OldWghtEAxis ==
    [name |-> WghtE, tag |-> <<"W", "G", "H", "E">>, minimum |-> Float(0),
     maximum |-> Float(5), default |-> Float(3)]

UfoA == <<"A", ".", "u", "f", "o">>
UfoB == <<"s", "/", "B", ".", "u", "f", "o">>

SourceOf(filename, location) ==
    [filename |-> filename, name |-> SplitExt(Basename(filename)).base,
     familyName |-> <<"C">>, styleName |-> <<"R">>, location |-> location]

InstanceOf(style_name, location) == [styleName |-> style_name, location |-> location]

Locations ==
    {EmptyDict, [a \in {Wght} |-> Float(2)],
     [a \in {Wght, WghtE} |-> IF a = Wght THEN Float(1) ELSE Float(4)]}

FixedDoc ==
    [axes |-> <<WghtAxis>>,
     sources |-> <<SourceOf(UfoA, [a \in {Wght} |-> Float(2)])>>,
     instances |-> <<InstanceOf(None, EmptyDict), InstanceOf(<< >>, EmptyDict),
                     InstanceOf(<<"B">>, [a \in {Wght} |-> Float(2)]),
                     InstanceOf(<<" ">>, EmptyDict), InstanceOf(<<"T">>, EmptyDict)>>]

FixedDisk == [p \in {OrigUfoPath(UfoA)} |-> "A"]

DocCsvs ==
    {[header |-> <<Instance, WghtE, XExt>>,
      rows |-> <<<<<<"B">>, <<1>>, <<2>>>>, <<<<" ">>, <<2>>, << >>>>>>],
     [header |-> <<Instance, WghtE, WghtE>>,
      rows |-> <<<<<<"B">>, <<1>>, <<2>>>>>>],
     [header |-> <<Instance, WghtE>>,
      rows |-> <<<<<<"B">>, <<1>>>>, <<<<" ">>, <<2>>>>>>]}

\* The source files: two masters, and a master stored under the name that the
\* duplicate of A gets.
SourceFiles(eaxes) == {UfoA, UfoB, NewUfoName(UfoA, eaxes)}

Documents(eaxes) ==
    {[axes |-> a, sources |-> s, instances |-> <<InstanceOf(<<"B">>, EmptyDict)>>] :
        a \in {<<WghtAxis>>, <<WghtAxis, OldWghtEAxis>>},
        s \in UNION {[1..n -> {SourceOf(f, l) : f \in SourceFiles(eaxes),
                                                 l \in Locations}] :
                     n \in 0..MaxSources}}

FullDisk(eaxes) ==
    [p \in {OrigUfoPath(f) : f \in SourceFiles(eaxes)} |->
        IF p = OrigUfoPath(UfoA) THEN "A" ELSE IF p = OrigUfoPath(UfoB) THEN "B" ELSE "old"]

Disks(eaxes) ==
    {[p \in ps |-> FullDisk(eaxes)[p]] : ps \in SUBSET DOMAIN FullDisk(eaxes)}

\* The instance files a compiler run can leave in the export directory.
Advances(h, a, sp) == [c \in {"H", "A", " "} |-> IF c = "H" THEN h ELSE IF c = "A" THEN a ELSE sp]

FontFiles ==
    {[stem |-> "Regular", loads |-> TRUE, fvar |-> << >>, named |-> EmptyDict,
      adv |-> Advances(5, 4, 2)],
     [stem |-> "Bold", loads |-> TRUE, fvar |-> <<"wght">>,
      named |-> [n \in {"Bold"} |-> [t \in {"wght"} |-> 700]],
      adv |-> Advances(6, 5, 2)],
     [stem |-> "Wide", loads |-> TRUE, fvar |-> <<"wght", "wdth">>,
      named |-> [n \in {"Wide"} |-> [t \in {"wght", "wdth"} |->
                                        IF t = "wght" THEN 400 ELSE 150]],
      adv |-> Advances(7, 6, 3)],
     [stem |-> "wght", loads |-> TRUE, fvar |-> <<"wght">>, named |-> EmptyDict,
      adv |-> Advances(5, 4, 2)],
     [stem |-> "Broken", loads |-> FALSE, fvar |-> << >>, named |-> EmptyDict,
      adv |-> Advances(0, 0, 0)]}

FileLists ==
    UNION {{fs \in [1..n -> FontFiles] : \A i, j \in 1..n : fs[i] = fs[j] => i = j} :
           n \in 0..MaxFiles}

CallInputs ==
    {[mkdirOk |-> FALSE, compiler |-> "none", files |-> << >>],
     [mkdirOk |-> TRUE, compiler |-> "nonzero", files |-> << >>],
     [mkdirOk |-> TRUE, compiler |-> "notfound", files |-> << >>]} \cup
    {[mkdirOk |-> TRUE, compiler |-> "ok", files |-> fs] : fs \in FileLists}

NoCall == [mkdirOk |-> TRUE, compiler |-> "none", files |-> << >>]

TextInputs == {<<"H">>, <<"A">>, << >>, <<" ">>}

NextUI ==
    \/ \E t \in TextInputs : EditText(t)
    \/ \E in \in CallInputs : RunCheck1(in)
    \/ \E in \in CallInputs : RunCheck2(in)

(***************************************************************************)
(* Specifications.                                                         *)
(*   SpecCsv  main() on every CSV file of the bounded family, one document *)
(*   SpecDoc  main() on every document and disk of the bounded family      *)
(*   SpecUI   a session of either inspector                                *)
(*   Spec     all of them                                                  *)
(***************************************************************************)
MergerIdle ==
    /\ pc = "idle"
    /\ csv = [header |-> << >>, rows |-> << >>]
    /\ dsFile = [axes |-> << >>, sources |-> << >>, instances |-> << >>]
    /\ disk = EmptyDict
    /\ disk0 = EmptyDict
    /\ e_axes = << >>
    /\ axis_minmax = EmptyDict
    /\ style_lookup = EmptyDict
    /\ doc = [axes |-> << >>, sources |-> << >>, instances |-> << >>]
    /\ warned = {}
    /\ outFile = << >>

UIIdle ==
    /\ variant = 0
    /\ text = << >>
    /\ status = Status("Ready", 0)
    /\ columns = [axes |-> << >>, width |-> << >>]
    /\ listRows = << >>
    /\ call = NoCall
    /\ ret = [results |-> << >>, axis_names |-> << >>, raised |-> FALSE]
    /\ log = << >>

MergerStart(c, d, k) ==
    /\ pc = "start"
    /\ csv = c
    /\ dsFile = d
    /\ disk = k
    /\ disk0 = k
    /\ e_axes = << >>
    /\ axis_minmax = EmptyDict
    /\ style_lookup = EmptyDict
    /\ doc = [axes |-> << >>, sources |-> << >>, instances |-> << >>]
    /\ warned = {}
    /\ outFile = << >>

InitCsv ==
    /\ \E c \in CsvFiles : MergerStart(c, FixedDoc, FixedDisk)
    /\ UIIdle

InitDoc ==
    /\ \E c \in DocCsvs :
         \E d \in Documents(EAxes(c.header)) :
           \E k \in Disks(EAxes(c.header)) : MergerStart(c, d, k)
    /\ UIIdle

\* InspectorUI.__init__ of either script
InitUI ==
    /\ MergerIdle
    /\ variant \in {1, 2}
    /\ text = <<"H">>
    /\ status = Status("Ready", 0)
    /\ columns = [axes |-> << >>, width |-> IF variant = 1 THEN WidthWord ELSE << >>]
    /\ listRows = << >>
    /\ call = NoCall
    /\ ret = [results |-> << >>, axis_names |-> << >>, raised |-> FALSE]
    /\ log = << >>

Init == InitCsv \/ InitDoc \/ InitUI

Next == NextMerger \/ NextUI

SpecCsv == InitCsv /\ [][NextMerger]_vars

SpecDoc == InitDoc /\ [][NextMerger]_vars

SpecUI == InitUI /\ [][NextUI]_vars

Spec == Init /\ [][Next]_vars

(***************************************************************************)
(* The claims.                                                             *)
(***************************************************************************)
OriginalCount == Len(dsFile.sources)

\* the sources that were duplicated, and the place of each one's duplicate
Kept == {i \in 1..OriginalCount : i \notin warned}

DuplicateIndex(i) == OriginalCount + Cardinality({k \in Kept : k <= i})

\* the master of source i is not the place where another source's duplicate goes
NotADestination(i) ==
    \A j \in 1..OriginalCount :
        NewUfoPath(dsFile.sources[j].filename, e_axes)
            # OrigUfoPath(dsFile.sources[i].filename)

\* the coordinates of locA and locB agree on every axis that is no extension axis
SameElsewhere(locA, locB) ==
    /\ DOMAIN locA \ SeqSet(e_axes) = DOMAIN locB \ SeqSet(e_axes)
    /\ \A a \in DOMAIN locA \ SeqSet(e_axes) : locA[a] = locB[a]

AtMin(loc) ==
    \A a \in SeqSet(e_axes) : a \in DOMAIN loc /\ loc[a] = axis_minmax[a].min

AtMax(loc) ==
    \A a \in SeqSet(e_axes) : a \in DOMAIN loc /\ loc[a] = axis_minmax[a].max

\* C1 as stated: after duplicate_sources_and_update_designspace every source
\* that was in the document before has exactly one appended duplicate, at the
\* maximum of every extension axis, and is itself at the minimum of every
\* extension axis.
C1_AsStated ==
    pc = "duplicated" =>
        /\ Len(doc.sources) = OriginalCount + OriginalCount
        /\ \A i \in 1..OriginalCount :
              /\ AtMin(doc.sources[i].location)
              /\ AtMax(doc.sources[OriginalCount + i].location)

\* C1 (amended): after duplicate_sources_and_update_designspace every source
\* that was in the document before is at the minimum of every extension axis
\* (whatever it had there before) and is otherwise unchanged; the sources
\* appended are exactly one duplicate for each original whose master directory
\* was found when it was processed (no "not found" warning), in the order of
\* the originals: it is at the maximum of every extension axis and has the
\* original's coordinates elsewhere. An original whose master directory was on
\* disk at the start and is no duplicate's destination is never skipped.
C1_Duplicates ==
    pc = "duplicated" =>
        /\ Len(doc.sources) = OriginalCount + Cardinality(Kept)
        /\ \A i \in 1..OriginalCount :
              /\ AtMin(doc.sources[i].location)
              /\ SameElsewhere(doc.sources[i].location, dsFile.sources[i].location)
              /\ doc.sources[i].filename = dsFile.sources[i].filename
              /\ (OrigUfoPath(dsFile.sources[i].filename) \in DOMAIN disk0
                    /\ NotADestination(i)) => i \in Kept
        /\ \A i \in Kept :
              LET dup == doc.sources[DuplicateIndex(i)]
              IN /\ AtMax(dup.location)
                 /\ SameElsewhere(dup.location, dsFile.sources[i].location)
                 /\ dup.filename = NewUfoName(dsFile.sources[i].filename, e_axes)

\* C1 witness: a source that had another coordinate on an extension axis was
\* duplicated, the axis has min < max, and another source was skipped.
C1_Witness ==
    /\ pc = "duplicated"
    /\ warned # {}
    /\ \E i \in Kept : \E a \in SeqSet(e_axes) :
          /\ a \in DOMAIN dsFile.sources[i].location
          /\ dsFile.sources[i].location[a] # axis_minmax[a].min
          /\ axis_minmax[a].min < axis_minmax[a].max

\* the coordinate that the CSV file gives style name "style" on column "axis":
\* << >> when no row has that key or the row has no value there, else <<v>>.
\* The key of a row is its Instance cell without surrounding blanks; of the rows
\* with one key the last counts, of the columns with one name the last counts.
LastCol(axis) ==
    CHOOSE j \in 1..Len(csv.header) :
        /\ csv.header[j] = axis
        /\ \A k \in (j + 1)..Len(csv.header) : csv.header[k] # axis

RowsWithKey(style) ==
    {r \in 1..Len(csv.rows) : Strip(csv.rows[r][1]) = style}

CsvValue(style, axis) ==
    IF RowsWithKey(style) = {} THEN << >>
    ELSE LET last == CHOOSE r \in RowsWithKey(style) :
                        \A q \in RowsWithKey(style) : q <= r
         IN csv.rows[last][LastCol(axis)]

\* twice the coordinate is min + max
IsMidpoint(v, axis) == v + v = axis_minmax[axis].min + axis_minmax[axis].max

\* C2 as stated: after update_instances_with_e_axes every instance has a
\* coordinate on every extension axis: the CSV value when its style name equals
\* a row key and the row has a value for the axis, else (min+max)/2.
C2_AsStated ==
    pc = "updated" =>
        \A i \in 1..Len(doc.instances) : \A a \in SeqSet(e_axes) :
            LET inst == doc.instances[i]
                v == CsvValue(inst.styleName, a)
            IN /\ a \in DOMAIN inst.location
               /\ IF v # << >>
                  THEN inst.location[a] = Float(v[1])
                  ELSE IsMidpoint(inst.location[a], a)

\* C2 (amended): after update_instances_with_e_axes every instance has a
\* coordinate on every extension axis: the CSV value when its style name is not
\* empty, equals a row key and the row has a value for the axis; (min+max)/2 in
\* every other case (no such row, no style name, an empty style name, no value
\* in the row). Coordinates on other axes are left as they were.
C2_InstanceCoordinates ==
    pc = "updated" =>
        \A i \in 1..Len(doc.instances) : \A a \in SeqSet(e_axes) :
            LET inst == doc.instances[i]
                v == CsvValue(inst.styleName, a)
            IN /\ a \in DOMAIN inst.location
               /\ IF inst.styleName # << >> /\ v # << >>
                  THEN inst.location[a] = Float(v[1])
                  ELSE IsMidpoint(inst.location[a], a)
               /\ SameElsewhere(inst.location, dsFile.instances[i].location)

\* C2 witness: on an axis with min < max one instance took its value from the
\* CSV, and another instance with a matching row took the midpoint because the
\* row has no value there.
C2_Witness ==
    /\ pc = "updated"
    /\ \E a \in SeqSet(e_axes) :
          /\ axis_minmax[a].min < axis_minmax[a].max
          /\ \E i \in 1..Len(doc.instances) :
                LET v == CsvValue(doc.instances[i].styleName, a)
                IN /\ doc.instances[i].styleName # << >>
                   /\ v # << >>
                   /\ ~IsMidpoint(Float(v[1]), a)
    /\ \E b \in SeqSet(e_axes) : \E i \in 1..Len(doc.instances) :
          /\ doc.instances[i].styleName # << >>
          /\ RowsWithKey(doc.instances[i].styleName) # {}
          /\ CsvValue(doc.instances[i].styleName, b) = << >>

\* the coordinates that the sources of the document have on an axis
SourceCoordinates(axis) ==
    {doc.sources[i].location[axis] :
        i \in {k \in 1..Len(doc.sources) : axis \in DOMAIN doc.sources[k].location}}

\* C3: after set_axis_defaults_to_minimums, at the end of main, the default
\* written for every axis of the file, pre-existing axes included, is the least
\* coordinate that the sources of the document have on that axis (and it is
\* float('inf'), the minimum of nothing, when no source has a coordinate there).
C3_DefaultIsSourceMinimum ==
    pc = "done" =>
        /\ Len(outFile) = Len(doc.axes)
        /\ \A k \in 1..Len(outFile) :
              LET coords == SourceCoordinates(outFile[k].name)
              IN /\ outFile[k].name = doc.axes[k].name
                 /\ IF coords = {}
                    THEN outFile[k].default = InfText
                    ELSE /\ outFile[k].default # InfText
                         /\ outFile[k].default[1] \in coords
                         /\ \A c \in coords : outFile[k].default[1] <= c

\* C3 witness: a pre-existing axis on which two sources differ got a default
\* other than the one the document had, and an added extension axis got one too.
C3_Witness ==
    /\ pc = "done"
    /\ \E k \in 1..Len(dsFile.axes) :
          /\ Cardinality(SourceCoordinates(outFile[k].name)) > 1
          /\ outFile[k].default # NumText(dsFile.axes[k].default)
    /\ \E k \in (Len(dsFile.axes) + 1)..Len(outFile) :
          outFile[k].default # InfText

\* C4 as stated: ensure_e_axes leaves every axis that was in the document
\* unchanged, after it every discovered extension axis occurs exactly once in
\* the axis list, and a second call with the same arguments adds no axis.
C4_AsStated ==
    pc = "ensured" =>
        /\ \A i \in 1..Len(dsFile.axes) : doc.axes[i] = dsFile.axes[i]
        /\ \A a \in SeqSet(e_axes) :
              Cardinality({i \in 1..Len(doc.axes) : doc.axes[i].name = a}) = 1
        /\ EnsureEAxes(doc.axes, e_axes, axis_minmax) = doc.axes

\* the values of an extension column (fixed point), and whether a row lacks one
ColumnValueSet(axis) ==
    {Float(csv.rows[r][LastCol(axis)][1]) :
        r \in {q \in 1..Len(csv.rows) : csv.rows[q][LastCol(axis)] # << >>}}

MinMaxFromColumn(axis) ==
    /\ axis \in DOMAIN axis_minmax
    /\ axis_minmax[axis].min <= axis_minmax[axis].max
    /\ axis_minmax[axis].min \in ColumnValueSet(axis)
    /\ axis_minmax[axis].max \in ColumnValueSet(axis)

\* C5 as stated: for every CSV file with a header line and every extension
\* axis, get_e_axes_and_lookup returns min <= max, both values of that column;
\* rows without a value are skipped and cause no error.
C5_AsStated ==
    (pc # "start" /\ csv.header # << >>) =>
        /\ pc # "ValueError"
        /\ \A a \in SeqSet(EAxes(csv.header)) : MinMaxFromColumn(a)

\* C5 (amended): for every CSV file with a header line in which every extension
\* column has a value in at least one row, get_e_axes_and_lookup returns for
\* every extension axis min <= max, both values of that column, with every
\* value of the column between them; rows without a value are skipped and
\* cause no error. When an extension column has no value in any row (or the
\* file has no row) the call raises ValueError.
C5_MinMax ==
    (pc # "start" /\ csv.header # << >>) =>
        IF \A a \in SeqSet(EAxes(csv.header)) : ColumnValueSet(a) # {}
        THEN /\ pc # "ValueError"
             /\ e_axes = EAxes(csv.header)
             /\ \A a \in SeqSet(e_axes) :
                   /\ MinMaxFromColumn(a)
                   /\ \A v \in ColumnValueSet(a) :
                         axis_minmax[a].min <= v /\ v <= axis_minmax[a].max
        ELSE pc = "ValueError"

\* C5 witness: the call returned, one extension column has min < max and a row
\* without a value was skipped in an extension column.
C5_Witness ==
    /\ pc = "parsed"
    /\ \E a \in SeqSet(e_axes) : axis_minmax[a].min < axis_minmax[a].max
    /\ \E a \in SeqSet(e_axes) : \E r \in 1..Len(csv.rows) :
          csv.rows[r][LastCol(a)] = << >>

\* C6: when the compiler subprocess exits with a non-zero status,
\* process_instances_with_harfbuzz returns an empty result list (and, in the
\* axis-aware variant, an empty axis list) and no exception leaves it.
C6_CompilerFailure ==
    call.compiler = "nonzero" =>
        /\ ret.results = << >>
        /\ ret.axis_names = << >>
        /\ ~ret.raised
        /\ log = <<"fontmake failed">>

\* C6 witness: a compiler failure in a run that follows a run with results.
C6_Witness ==
    /\ call.compiler = "nonzero"
    /\ listRows # << >>
    /\ status.kind = "No data found."

\* C7 as stated: every row returned by process_instances_with_harfbuzz
\* (axis-aware variant) has an entry for every axis of the axis list returned
\* by the same call, in whatever order the instance files are processed.
C7_AsStated ==
    variant = 2 =>
        \A i \in 1..Len(ret.results) :
            SeqSet(ret.axis_names) \subseteq DOMAIN ret.results[i].axes

\* C8 as stated: a source whose master directory is missing (the warning is
\* printed for it) is skipped: no duplicate descriptor is added for it and
\* nothing changes on disk for it (a directory at the duplicate's destination
\* stays), and every other source whose master directory exists still gets its
\* duplicate.
C8_AsStated ==
    pc = "duplicated" =>
        /\ Len(doc.sources) = OriginalCount + Cardinality(Kept)
        /\ \A i \in warned :
              LET dest == NewUfoPath(dsFile.sources[i].filename, e_axes)
              IN dest \in DOMAIN disk0 =>
                    dest \in DOMAIN disk /\ disk[dest] = disk0[dest]
        /\ \A i \in 1..OriginalCount :
              OrigUfoPath(dsFile.sources[i].filename) \in DOMAIN disk0 => i \in Kept

\* C9 as stated: when an unexpected exception is raised while an instance is
\* processed, the status after run_check is an error message, the rows
\* measured before the failure are not shown as the run's result, and a later
\* run_check is accepted.
C9_AsStated ==
    (call.compiler = "ok" /\ "Error during processing" \in SeqSet(log)) =>
        /\ status.kind = "Error"
        /\ ret.results # << >> => listRows # ret.results
        /\ ENABLED (\E in \in CallInputs : RunCheck1(in) \/ RunCheck2(in))

\* C10 as stated: after any sequence of run_check invocations the results
\* table shows exactly the measurement set of the most recent run; it is empty
\* when that run produced no result.
C10_AsStated ==
    status.kind # "Ready" => listRows = ret.results

\* C11 as stated: in the designspace file that main produces, the final default
\* of every axis, pre-existing or added, is a finite number with
\* minimum <= default <= maximum, also when the document has no source or no
\* source has a coordinate on the axis.
C11_AsStated ==
    pc = "done" =>
        \A k \in 1..Len(outFile) :
            /\ outFile[k].default # InfText
            /\ outFile[k].minimum[1] <= outFile[k].default[1]
            /\ outFile[k].default[1] <= outFile[k].maximum[1]

====
